---- MODULE Spec2Model ----
(***************************************************************************)
(* Lexical path normalisation of desktop/src-tauri/src/main.rs:            *)
(* simplify_path (the component-collapse pass) and the normalize_path      *)
(* command wrapped around it.                                              *)
(*                                                                         *)
(* A path (Path / PathBuf) is a sequence of pieces: "C:" is a drive        *)
(* prefix, "/" the root separator, "." and ".." the current and parent     *)
(* markers, anything else a plain name.  Separators between names are      *)
(* implicit.  A raw string handed to normalize_path is such a sequence     *)
(* with whitespace pieces " " around it.                                   *)
(***************************************************************************)
EXTENDS Integers, Sequences, FiniteSets, TLC

\* ------------------------------------------------------------------ bounds
MaxLen == 4        \* pieces after the anchors in a path given to simplify_path
MaxRawLen == 2     \* pieces after the anchors in a raw_path of normalize_path
MaxPad == 1        \* whitespace pieces on each side of a raw_path
MaxCalls == 2      \* calls of normalize_path in one behaviour

Platforms == {"unix", "windows"}
Names == {"a", "b"}
BodyPieces == {".", ".."} \cup Names
Whitespace == " "

\* ------------------------------------------------- std::path, as it is used
HasPrefix(plat, p) == plat = "windows" /\ Len(p) >= 1 /\ p[1] = "C:"

HasRoot(plat, p) ==
    \/ Len(p) >= 1 /\ p[1] = "/"
    \/ HasPrefix(plat, p) /\ Len(p) >= 2 /\ p[2] = "/"

\* Path::is_absolute: rooted on unix, prefix and root on windows.
IsAbsolute(plat, p) ==
    HasRoot(plat, p) /\ (plat = "unix" \/ HasPrefix(plat, p))

\* The kind path.components() gives a piece.  (Outside verbatim prefixes the
\* iterator drops a "." that is not leading instead of yielding CurDir; the
\* CurDir arm does nothing, so the pass is the same either way.)
Kind(plat, p, i) ==
    IF plat = "windows" /\ i = 1 /\ p[i] = "C:" THEN "Prefix"
    ELSE IF p[i] = "/" THEN "RootDir"
    ELSE IF p[i] = "." THEN "CurDir"
    ELSE IF p[i] = ".." THEN "ParentDir"
    ELSE "Normal"

\* Path::components: the typed components of a path, each with its OsStr.
Components(plat, p) ==
    [i \in 1..Len(p) |-> [kind |-> Kind(plat, p, i), value |-> p[i]]]

\* PathBuf::push (and Path::join): an absolute or prefixed path replaces the
\* buffer, a rooted one keeps only the buffer's prefix, any other is appended.
PathPush(plat, buf, p) ==
    IF IsAbsolute(plat, p) \/ HasPrefix(plat, p) THEN p
    ELSE IF HasRoot(plat, p)
         THEN (IF HasPrefix(plat, buf) THEN <<buf[1]>> ELSE <<>>) \o p
    ELSE buf \o p

\* str::trim on a raw string: whitespace is dropped from both ends.
RECURSIVE TrimStart(_)
TrimStart(s) ==
    IF s # <<>> /\ Head(s) = Whitespace THEN TrimStart(Tail(s)) ELSE s

RECURSIVE TrimEnd(_)
TrimEnd(s) ==
    IF s # <<>> /\ s[Len(s)] = Whitespace
    THEN TrimEnd(SubSeq(s, 1, Len(s) - 1)) ELSE s

Trim(s) == TrimEnd(TrimStart(s))

\* --------------------------------------------------------- NormalizedPart
Prefix(v) == [tag |-> "Prefix", value |-> v]
Root(v) == [tag |-> "Root", value |-> v]
Segment(v) == [tag |-> "Segment", value |-> v]

\* ------------------------------------------- simplify_path, one arm each
PrefixArm(stack, v) == Append(stack, Prefix(v))

RootArm(stack, v) == Append(stack, Root(v))

\* Variant: the current-directory marker is kept as a segment.
CurDirArm_Push(stack) == Append(stack, Segment("."))

CurDirArm(stack) == stack

\* Variant: a name equal to the one on top of the stack is not pushed again.
NormalArm_Dedup(stack, v) ==
    IF stack # <<>> /\ stack[Len(stack)] = Segment(v) THEN stack
    ELSE Append(stack, Segment(v))

NormalArm(stack, v) == Append(stack, Segment(v))

\* Variants of the ParentDir arm, each with one slip.
\* The absoluteness tests are missing: ".." is pushed above the anchor and
\* on an empty stack whatever the path.
ParentDirArm_PushWhenAbsolute(stack, abs) ==
    IF stack # <<>> /\ stack[Len(stack)].tag = "Segment"
                   /\ stack[Len(stack)].value # ".."
    THEN SubSeq(stack, 1, Len(stack) - 1)
    ELSE Append(stack, Segment(".."))

\* The pop is missing: a ".." after a name is kept like any other.
ParentDirArm_NeverPop(stack, abs) ==
    IF ~abs THEN Append(stack, Segment("..")) ELSE stack

\* The `continue` of the pending-".." arm is missing: control falls through
\* to the push after the `if let`, and a relative path gets two entries.
ParentDirArm_NoContinue(stack, abs) ==
    IF stack # <<>>
    THEN LET last == stack[Len(stack)] IN
         IF last.tag = "Segment" /\ last.value # ".."
         THEN SubSeq(stack, 1, Len(stack) - 1)
         ELSE IF last.tag = "Segment"
         THEN (IF ~abs THEN stack \o <<Segment(".."), Segment("..")>> ELSE stack)
         ELSE (IF ~abs THEN Append(stack, Segment("..")) ELSE stack)
    ELSE (IF ~abs THEN Append(stack, Segment("..")) ELSE stack)

\* The guard on the segment's name is missing: a pending ".." is popped too.
ParentDirArm_PopPending(stack, abs) ==
    IF stack # <<>>
    THEN LET last == stack[Len(stack)] IN
         IF last.tag = "Segment"
         THEN SubSeq(stack, 1, Len(stack) - 1)
         ELSE (IF ~abs THEN Append(stack, Segment("..")) ELSE stack)
    ELSE (IF ~abs THEN Append(stack, Segment("..")) ELSE stack)

\* The match on the last part is missing: whatever is on top is popped.
ParentDirArm_PopAnchor(stack, abs) ==
    IF stack # <<>>
    THEN LET last == stack[Len(stack)] IN
         IF ~(last.tag = "Segment" /\ last.value = "..")
         THEN SubSeq(stack, 1, Len(stack) - 1)
         ELSE (IF ~abs THEN Append(stack, Segment("..")) ELSE stack)
    ELSE (IF ~abs THEN Append(stack, Segment("..")) ELSE stack)

\* The anchor arm discards the ".." whatever the path.
ParentDirArm_DiscardAtAnchor(stack, abs) ==
    IF stack # <<>>
    THEN LET last == stack[Len(stack)] IN
         IF last.tag = "Segment" /\ last.value # ".."
         THEN SubSeq(stack, 1, Len(stack) - 1)
         ELSE IF last.tag = "Segment"
         THEN (IF ~abs THEN Append(stack, Segment("..")) ELSE stack)
         ELSE stack
    ELSE (IF ~abs THEN Append(stack, Segment("..")) ELSE stack)

ParentDirArm(stack, abs) ==
    IF stack # <<>>
    THEN LET last == stack[Len(stack)] IN
         IF last.tag = "Segment" /\ last.value # ".."
         THEN SubSeq(stack, 1, Len(stack) - 1)
         ELSE IF last.tag = "Segment"
         THEN (IF ~abs THEN Append(stack, Segment("..")) ELSE stack)
         ELSE (IF ~abs THEN Append(stack, Segment("..")) ELSE stack)
    ELSE (IF ~abs THEN Append(stack, Segment("..")) ELSE stack)

\* The match of one loop iteration.
Arm(stack, c, abs) ==
    CASE c.kind = "Prefix" -> PrefixArm(stack, c.value)
      [] c.kind = "RootDir" -> RootArm(stack, c.value)
      [] c.kind = "CurDir" -> CurDirArm(stack)
      [] c.kind = "ParentDir" -> ParentDirArm(stack, abs)
      [] c.kind = "Normal" -> NormalArm(stack, c.value)

\* The whole loop over path.components().
RECURSIVE Collapse(_, _, _)
Collapse(stack, comps, abs) ==
    IF comps = <<>> THEN stack
    ELSE Collapse(Arm(stack, Head(comps), abs), Tail(comps), abs)

\* The second loop: every part's value is pushed on a fresh PathBuf.
RECURSIVE Rebuild(_, _, _)
Rebuild(plat, buf, parts) ==
    IF parts = <<>> THEN buf
    ELSE Rebuild(plat, PathPush(plat, buf, <<Head(parts).value>>), Tail(parts))

SimplifyPath(plat, p) ==
    Rebuild(plat, <<>>, Collapse(<<>>, Components(plat, p), IsAbsolute(plat, p)))

\* ------------------------------------------------------------------ inputs
RECURSIVE SeqsUpTo(_, _)
SeqsUpTo(S, n) ==
    IF n = 0 THEN {<<>>}
    ELSE LET shorter == SeqsUpTo(S, n - 1) IN
         shorter \cup {Append(s, x) : s \in {t \in shorter : Len(t) = n - 1}, x \in S}

\* The anchors a path can start with on each platform.  (A verbatim prefix,
\* absolute without a RootDir component, is followed by nothing to collapse
\* and is left out.)
Anchors(plat) ==
    IF plat = "unix" THEN {<<>>, <<"/">>}
    ELSE {<<>>, <<"/">>, <<"C:">>, <<"C:", "/">>}

Paths(plat, n) == {h \o b : h \in Anchors(plat), b \in SeqsUpTo(BodyPieces, n)}

Pad(n) == [i \in 1..n |-> Whitespace]

RawPaths(plat) ==
    {Pad(l) \o p \o Pad(t) : l \in 0..MaxPad, t \in 0..MaxPad, p \in Paths(plat, MaxRawLen)}

\* What env::current_dir can return: an absolute directory, or an error.
Unavailable == <<"unavailable">>
Cwds(plat) ==
    IF plat = "unix" THEN {<<"/">>, <<"/", "w">>}
    ELSE {<<"C:", "/">>, <<"C:", "/", "w">>}

NoResult == [kind |-> "None"]
Err(m) == [kind |-> "Err", msg |-> m]
Ok(v) == [kind |-> "Ok", value |-> v]
PathRequired == "Path is required"
NoCurrentDir == "Unable to resolve current directory"

\* ------------------------------------------------------------------- state
VARIABLES
    platform,     \* the build's target family
    env_cwd,      \* the process's working directory, or Unavailable
    raw_path,     \* normalize_path's argument
    calls,        \* calls of normalize_path started so far
    cwd_reads,    \* env::current_dir calls made by the current call
    cwd_seen,     \* what the current call's env::current_dir returned
    base_path,    \* normalize_path's base_path
    path,         \* simplify_path's argument
    is_absolute,  \* simplify_path's is_absolute
    components,   \* simplify_path's stack of NormalizedPart
    idx,          \* the next component of path.components()
    simplified,   \* simplify_path calls made by the current call
    normalized,   \* simplify_path's result
    result,       \* normalize_path's Result
    pc

vars == <<platform, env_cwd, raw_path, calls, cwd_reads, cwd_seen, base_path,
          path, is_absolute, components, idx, simplified, normalized, result, pc>>

npVars == <<env_cwd, raw_path, calls, cwd_reads, cwd_seen, base_path, result>>

\* ------------------------------------------------------- simplify_path
Comp == Components(platform, path)[idx]

InLoop(kind) == pc = "loop" /\ idx <= Len(path) /\ Comp.kind = kind

Advance(stack) ==
    /\ components' = stack
    /\ idx' = idx + 1
    /\ UNCHANGED <<platform, path, is_absolute, simplified, normalized, pc>>
    /\ UNCHANGED npVars

StepPrefix == InLoop("Prefix") /\ Advance(PrefixArm(components, Comp.value))

StepRootDir == InLoop("RootDir") /\ Advance(RootArm(components, Comp.value))

StepCurDir == InLoop("CurDir") /\ Advance(CurDirArm(components))

StepParentDir == InLoop("ParentDir") /\ Advance(ParentDirArm(components, is_absolute))

StepNormal == InLoop("Normal") /\ Advance(NormalArm(components, Comp.value))

Build ==
    /\ pc = "loop" /\ idx > Len(path)
    /\ normalized' = Rebuild(platform, <<>>, components)
    /\ pc' = "simplified"
    /\ UNCHANGED <<platform, path, is_absolute, components, idx, simplified>>
    /\ UNCHANGED npVars

SimplifyNext ==
    \/ StepPrefix
    \/ StepRootDir
    \/ StepCurDir
    \/ StepParentDir
    \/ StepNormal
    \/ Build

\* simplify_path entered with any path of the platform.
Init ==
    /\ platform \in Platforms
    /\ path \in Paths(platform, MaxLen)
    /\ is_absolute = IsAbsolute(platform, path)
    /\ components = <<>>
    /\ idx = 1
    /\ simplified = 1
    /\ normalized = <<>>
    /\ pc = "loop"
    /\ env_cwd = Unavailable
    /\ raw_path = <<>>
    /\ calls = 0
    /\ cwd_reads = 0
    /\ cwd_seen = Unavailable
    /\ base_path = path
    /\ result = NoResult

Next == SimplifyNext

Spec == Init /\ [][Next]_vars

\* ------------------------------------------------------- normalize_path
Candidate == Trim(raw_path)

\* Variant: the emptiness test is made on the untrimmed string.
IsBlank_Untrimmed(raw) == raw = <<>>

\* trimmed.is_empty()
IsBlank(raw) == Trim(raw) = <<>>

\* Variant: the join is made the wrong way round.
Join_Swapped(plat, cwd, candidate) == PathPush(plat, candidate, cwd)

Join(plat, cwd, candidate) == PathPush(plat, cwd, candidate)

simplifyVars == <<path, is_absolute, components, idx, simplified, normalized>>

\* raw_path.trim() is empty: the call ends with the first error.
NpEmpty ==
    /\ pc = "np_trim" /\ IsBlank(raw_path)
    /\ result' = Err(PathRequired)
    /\ pc' = "done"
    /\ UNCHANGED <<platform, env_cwd, raw_path, calls, cwd_reads, cwd_seen, base_path>>
    /\ UNCHANGED simplifyVars

NpCandidate ==
    /\ pc = "np_trim" /\ ~IsBlank(raw_path)
    /\ pc' = "np_resolve"
    /\ UNCHANGED <<platform, result>>
    /\ UNCHANGED <<env_cwd, raw_path, calls, cwd_reads, cwd_seen, base_path>>
    /\ UNCHANGED simplifyVars

NpAbsolute ==
    /\ pc = "np_resolve" /\ IsAbsolute(platform, Candidate)
    /\ base_path' = Candidate
    /\ pc' = "np_call"
    /\ UNCHANGED <<platform, env_cwd, raw_path, calls, cwd_reads, cwd_seen, result>>
    /\ UNCHANGED simplifyVars

NpCurrentDirOk ==
    /\ pc = "np_resolve" /\ ~IsAbsolute(platform, Candidate)
    /\ env_cwd # Unavailable
    /\ cwd_reads' = cwd_reads + 1
    /\ cwd_seen' = env_cwd
    /\ base_path' = Join(platform, env_cwd, Candidate)
    /\ pc' = "np_call"
    /\ UNCHANGED <<platform, env_cwd, raw_path, calls, result>>
    /\ UNCHANGED simplifyVars

NpCurrentDirErr ==
    /\ pc = "np_resolve" /\ ~IsAbsolute(platform, Candidate)
    /\ env_cwd = Unavailable
    /\ cwd_reads' = cwd_reads + 1
    /\ cwd_seen' = env_cwd
    /\ result' = Err(NoCurrentDir)
    /\ pc' = "done"
    /\ UNCHANGED <<platform, env_cwd, raw_path, calls, base_path>>
    /\ UNCHANGED simplifyVars

\* simplify_path(&base_path) is entered.
NpSimplify ==
    /\ pc = "np_call"
    /\ path' = base_path
    /\ is_absolute' = IsAbsolute(platform, base_path)
    /\ components' = <<>>
    /\ idx' = 1
    /\ simplified' = simplified + 1
    /\ pc' = "loop"
    /\ UNCHANGED <<platform, normalized>>
    /\ UNCHANGED npVars

NpReturn ==
    /\ pc = "simplified"
    /\ result' = Ok(normalized)
    /\ pc' = "done"
    /\ UNCHANGED <<platform, env_cwd, raw_path, calls, cwd_reads, cwd_seen, base_path>>
    /\ UNCHANGED simplifyVars

\* The command is invoked again, with the same argument; every local is fresh.
NpCallAgain ==
    /\ pc = "done" /\ calls < MaxCalls
    /\ calls' = calls + 1
    /\ cwd_reads' = 0
    /\ cwd_seen' = Unavailable
    /\ base_path' = <<>>
    /\ path' = <<>>
    /\ is_absolute' = FALSE
    /\ components' = <<>>
    /\ idx' = 1
    /\ simplified' = 0
    /\ normalized' = <<>>
    /\ result' = NoResult
    /\ pc' = "np_trim"
    /\ UNCHANGED <<platform, env_cwd, raw_path>>

\* The rest of the process changes or loses its working directory.
EnvChange ==
    /\ env_cwd' \in (Cwds(platform) \cup {Unavailable}) \ {env_cwd}
    /\ UNCHANGED <<platform, raw_path, calls, cwd_reads, cwd_seen, base_path, result, pc>>
    /\ UNCHANGED simplifyVars

InitNP ==
    /\ platform \in Platforms
    /\ raw_path \in RawPaths(platform)
    /\ env_cwd \in Cwds(platform) \cup {Unavailable}
    /\ calls = 1
    /\ cwd_reads = 0
    /\ cwd_seen = Unavailable
    /\ base_path = <<>>
    /\ path = <<>>
    /\ is_absolute = FALSE
    /\ components = <<>>
    /\ idx = 1
    /\ simplified = 0
    /\ normalized = <<>>
    /\ result = NoResult
    /\ pc = "np_trim"

NextNP ==
    \/ NpEmpty
    \/ NpCandidate
    \/ NpAbsolute
    \/ NpCurrentDirOk
    \/ NpCurrentDirErr
    \/ NpSimplify
    \/ SimplifyNext
    \/ NpReturn
    \/ NpCallAgain
    \/ EnvChange

SpecNP == InitNP /\ [][NextNP]_vars

\* ================================================================= claims
IsAnchor(part) == part.tag \in {"Prefix", "Root"}
IsPending(part) == part.tag = "Segment" /\ part.value = ".."
IsName(part) == part.tag = "Segment" /\ part.value # ".."
Simplified == pc = "simplified"
Count(p, x) == Cardinality({i \in DOMAIN p : p[i] = x})
AnchorCount(plat, p) ==
    Cardinality({i \in DOMAIN p : Kind(plat, p, i) \in {"Prefix", "RootDir"}})
\* A loop iteration on a component of the given kind is being taken.
Iterates(kind) == InLoop(kind) /\ idx' = idx + 1
\* The part a Prefix, RootDir or Normal component is pushed as.
PartOf(c) ==
    IF c.kind = "Prefix" THEN Prefix(c.value)
    ELSE IF c.kind = "RootDir" THEN Root(c.value)
    ELSE Segment(c.value)

\* C1: with is_absolute true the stack holds no ".." entry after any step of
\* the pass, and neither does the path that is returned; the loop run with
\* the flag set leaves no ".." on the stack for any path.
C1_AbsoluteHasNoParent ==
    /\ is_absolute =>
           /\ \A k \in DOMAIN components : ~IsPending(components[k])
           /\ Simplified => \A k \in DOMAIN normalized : normalized[k] # ".."
    /\ LET forced == Collapse(<<>>, Components(platform, path), TRUE) IN
       \A k \in DOMAIN forced : ~IsPending(forced[k])

\* An absolute path whose ".." components outnumber its names has been
\* collapsed down to its anchors.
C1_Witness ==
    /\ Simplified /\ is_absolute
    /\ Count(path, "..") > Count(path, "a") + Count(path, "b")
    /\ Len(normalized) = AnchorCount(platform, path)

\* C2 as claimed: with is_absolute false every entry before a ".." entry of
\* the output is itself a ".." entry.
C2_ParentsAreAPrefix ==
    (Simplified /\ ~is_absolute) =>
        \A i \in DOMAIN normalized : normalized[i] = ".." =>
            \A j \in 1..(i - 1) : normalized[j] = ".."

\* C2 as amended: with is_absolute false every entry before a ".." entry is
\* a ".." entry or a Prefix/Root anchor, never a named Segment; this holds of
\* the stack after every step and of the output.
C2_ParentsFollowOnlyAnchors ==
    ~is_absolute =>
        /\ \A i \in DOMAIN components : IsPending(components[i]) =>
               \A j \in 1..(i - 1) : ~IsName(components[j])
        /\ Simplified =>
               \A i \in DOMAIN normalized : normalized[i] = ".." =>
                   \A j \in 1..(i - 1) : normalized[j] \in {"..", "/", "C:"}

\* A relative path with an anchor, from which a name was popped, keeps a
\* ".." entry behind the anchor and a name behind that.
C2_Witness ==
    /\ Simplified /\ ~is_absolute
    /\ AnchorCount(platform, path) = 1
    /\ Len(normalized) < Len(path)
    /\ Len(normalized) = 3
    /\ normalized[2] = ".." /\ normalized[3] \in Names

\* The components a stack is read as again once it has been rebuilt.
Reparse(plat, stack) == Components(plat, Rebuild(plat, <<>>, stack))

\* C3: simplifying the returned path again returns it unchanged; the returned
\* path has the absoluteness of the input, and its collapse under that flag
\* is the stack the pass ended with; the loop alone, run on the path's
\* components under either flag, is idempotent too.
C3_Idempotent ==
    Simplified =>
        /\ SimplifyPath(platform, normalized) = normalized
        /\ IsAbsolute(platform, normalized) = is_absolute
        /\ Collapse(<<>>, Components(platform, normalized), is_absolute) = components
        /\ \A abs \in BOOLEAN :
               LET once == Collapse(<<>>, Components(platform, path), abs) IN
               Collapse(<<>>, Reparse(platform, once), abs) = once

\* A path that the pass shortened and that still carries two ".." entries.
C3_Witness ==
    /\ Simplified
    /\ Len(normalized) < Len(path)
    /\ Count(normalized, "..") >= 2

\* C5, the step: for a relative path a ParentDir pops the top when it is a
\* named Segment, and pushes one ".." and removes nothing when the top is a
\* pending ".." or the stack is empty.
C5_Step ==
    (Iterates("ParentDir") /\ ~is_absolute) =>
        /\ (components # <<>> /\ IsName(components[Len(components)])) =>
               components' = SubSeq(components, 1, Len(components) - 1)
        /\ (components = <<>> \/ IsPending(components[Len(components)])) =>
               components' = Append(components, Segment(".."))

\* C5, the results: k ".." components give k ".." entries, `a/../../b` gives
\* `../b`, and `../../b` is returned as it is.
C5_Results ==
    (Simplified /\ ~is_absolute) =>
        /\ (\A i \in DOMAIN path : path[i] = "..") => normalized = path
        /\ path = <<"a", "..", "..", "b">> => normalized = <<"..", "b">>
        /\ path = <<"..", "..", "b">> => normalized = path

\* C5: the tie-break on a pending "..", step and results.
C5_PendingParentTieBreak == [][C5_Step]_vars /\ []C5_Results

C5_Witness ==
    /\ Simplified
    /\ path = <<"a", "..", "..", "b">>
    /\ normalized = <<"..", "b">>

\* C6, the step: an anchor on the stack is at the same position after the step.
C6_Step ==
    \A k \in DOMAIN components : IsAnchor(components[k]) =>
        k \in DOMAIN components' /\ components'[k] = components[k]

\* C6, the result: the anchors of the output are the Prefix and RootDir
\* components of the input, in their order.
C6_Result ==
    Simplified =>
        /\ SelectSeq(components, IsAnchor)
             = [i \in 1..AnchorCount(platform, path) |->
                    PartOf(Components(platform, path)[i])]
        /\ AnchorCount(platform, normalized) = AnchorCount(platform, path)
        /\ \A i \in 1..AnchorCount(platform, path) : normalized[i] = path[i]

\* C6: anchors are never removed.
C6_AnchorsStay == [][C6_Step]_vars /\ []C6_Result

\* Two ".." components were processed right behind a Prefix and a Root.
C6_Witness ==
    /\ Simplified
    /\ AnchorCount(platform, path) = 2
    /\ Len(path) >= 4 /\ path[3] = ".." /\ path[4] = ".."
    /\ Len(normalized) >= 2

\* C7: a path with no "." and no ".." component is returned unchanged, and
\* its stack holds one part per component, in order; the loop gives that
\* stack under either value of the flag.
C7_NamesOnlyIsIdentity ==
    (Simplified /\ Count(path, ".") = 0 /\ Count(path, "..") = 0) =>
        /\ normalized = path
        /\ components = [i \in DOMAIN path |-> PartOf(Components(platform, path)[i])]
        /\ \A abs \in BOOLEAN :
               Collapse(<<>>, Components(platform, path), abs) = components

\* A path of three names, the same name twice in a row.
C7_Witness ==
    /\ Simplified
    /\ Count(path, ".") = 0 /\ Count(path, "..") = 0
    /\ AnchorCount(platform, path) = 0
    /\ Len(normalized) = 3
    /\ normalized[1] = normalized[2]

\* C8, the step: the iteration on a CurDir leaves the stack as it is.
C8_Step == Iterates("CurDir") => components' = components

\* C8, the result: no "." entry is on the stack or in the output, and the
\* output is that of the path with every "." taken out, as is the loop's
\* stack under either value of the flag.
C8_Result ==
    /\ \A k \in DOMAIN components : components[k].value # "."
    /\ Simplified =>
           /\ Count(normalized, ".") = 0
           /\ normalized
                = SimplifyPath(platform, SelectSeq(path, LAMBDA x : x # "."))
           /\ \A abs \in BOOLEAN :
                  Collapse(<<>>, Components(platform, path), abs)
                    = Collapse(<<>>, Components(platform,
                                   SelectSeq(path, LAMBDA x : x # ".")), abs)

\* C8: Current components have no effect.
C8_CurrentHasNoEffect == [][C8_Step]_vars /\ []C8_Result

\* A "." between a name and a ".." did not keep the ".." from popping the name.
C8_Witness ==
    /\ Simplified
    /\ \E i \in 1..(Len(path) - 2) :
           path[i] \in Names /\ path[i + 1] = "." /\ path[i + 2] = ".."
    /\ Count(path, ".") = 1 /\ Count(path, "..") = 1
    /\ Len(normalized) = Len(path) - 3

\* C9, the step: a ParentDir met with a Root or Prefix on top leaves the stack
\* as it is when the path is absolute, and pushes one ".." behind the anchor
\* when it is not.
C9_Step ==
    (Iterates("ParentDir") /\ components # <<>>
        /\ IsAnchor(components[Len(components)])) =>
        IF is_absolute THEN components' = components
        ELSE components' = Append(components, Segment(".."))

\* C9, the results: `/../a` gives `/a` and `C:/../a` gives `C:/a`.
C9_Results ==
    Simplified =>
        /\ (platform = "unix" /\ path = <<"/", "..", "a">>) =>
               normalized = <<"/", "a">>
        /\ (platform = "windows" /\ path = <<"C:", "/", "..", "a">>) =>
               normalized = <<"C:", "/", "a">>

\* C9: a ParentDir at the anchor.
C9_ParentAtAnchor == [][C9_Step]_vars /\ []C9_Results

\* A relative path with a drive prefix: the ".." sits right behind the Prefix.
C9_Witness ==
    /\ ~is_absolute
    /\ Len(components) = 2
    /\ components[1].tag = "Prefix"
    /\ IsPending(components[2])
    /\ idx = 3

\* ------------------------------------------------ claims on normalize_path
Done == pc = "done"
AllWhitespace(raw) == \A i \in DOMAIN raw : raw[i] = Whitespace
\* The pieces of a raw string between its whitespace.
Inner(raw) == SelectSeq(raw, LAMBDA x : x # Whitespace)
\* The raw string spells an absolute path: `/...` on unix, `C:/...` on windows.
Rooted(plat, raw) ==
    IF plat = "unix" THEN Len(Inner(raw)) >= 1 /\ Inner(raw)[1] = "/"
    ELSE Len(Inner(raw)) >= 2 /\ Inner(raw)[1] = "C:" /\ Inner(raw)[2] = "/"

\* C4: a finished call has failed with "Path is required" exactly when
\* raw_path is all whitespace, and then read no working directory; it has
\* failed with the current-directory error exactly when the path is not
\* blank, not absolute and the lookup failed; neither failure entered
\* simplify_path; every other call, so every call with an absolute path,
\* whatever the working directory, returned Ok from one simplify_path call.
C4_FailsInTwoCases ==
    Done =>
        /\ result.kind \in {"Err", "Ok"}
        /\ result = Err(PathRequired) <=> AllWhitespace(raw_path)
        /\ result = Err(PathRequired) => cwd_reads = 0 /\ simplified = 0
        /\ result = Err(NoCurrentDir) <=>
               /\ ~AllWhitespace(raw_path)
               /\ ~Rooted(platform, raw_path)
               /\ cwd_reads = 1 /\ cwd_seen = Unavailable
        /\ result = Err(NoCurrentDir) => simplified = 0
        /\ (~AllWhitespace(raw_path) /\ Rooted(platform, raw_path)) =>
               result.kind = "Ok"
        /\ result.kind = "Ok" => simplified = 1 /\ result = Ok(normalized)
        /\ result.kind = "Err" => result.msg \in {PathRequired, NoCurrentDir}

\* A relative path, padded with whitespace, whose lookup failed.
C4_Witness ==
    /\ Done
    /\ result = Err(NoCurrentDir)
    /\ Len(raw_path) > Len(Inner(raw_path))

\* C10 as claimed: every finished call has read the working directory once.
C10_ReadExactlyOnce == Done => cwd_reads = 1

\* C10 as amended, the steps: a read takes the working directory the process
\* has at that moment.
C10_Step == cwd_reads' = cwd_reads + 1 => cwd_seen' = env_cwd

\* C10 as amended, the result: a call reads the working directory at most
\* once, and once exactly when the trimmed path is neither empty nor
\* absolute; what it read is what the collapsed path was joined on.
C10_Result ==
    /\ cwd_reads <= 1
    /\ Done =>
           /\ cwd_reads = 1 <=>
                  (~AllWhitespace(raw_path) /\ ~Rooted(platform, raw_path))
           /\ (cwd_reads = 1 /\ result.kind = "Ok") =>
                  /\ cwd_seen \in Cwds(platform)
                  /\ base_path = PathPush(platform, cwd_seen, Inner(raw_path))
                  /\ path = base_path
                  /\ result = Ok(SimplifyPath(platform,
                                 PathPush(platform, cwd_seen, Inner(raw_path))))

\* C10 as amended: the working directory is read at most once a call, and
\* each call uses what it read itself.
C10_ReadAtMostOnce == [][C10_Step]_vars /\ []C10_Result

\* A second call of the command, on a relative path, returned Ok with a path
\* below the working directory it read.
C10_Witness ==
    /\ Done /\ calls = 2
    /\ cwd_reads = 1
    /\ result.kind = "Ok"
    /\ cwd_seen = env_cwd
    /\ Len(result.value) > Len(cwd_seen)

====
